---------------------------- MODULE Spec2Model ----------------------------
(***************************************************************************)
(* A model of the QUIC client core of mvfst:                               *)
(*   - the NewReno congestion controller                                   *)
(*       (quic/congestion_control/NewReno.cpp), and                        *)
(*   - the client handshake state machine                                  *)
(*       (quic/client/handshake/ClientHandshake.cpp).                      *)
(* Byte counts and packet numbers are the integers of the source.  The     *)
(* 64-bit and 32-bit limits of the source are larger than the integers the *)
(* model checker holds; kUInt64Max and kUInt32Max stand for them.          *)
(***************************************************************************)
EXTENDS Integers, Sequences, FiniteSets, TLC

VARIABLES
    \* ---- NewReno (NewReno.cpp) ----
    cwndBytes,        \* NewReno::cwndBytes_
    ssthresh,         \* NewReno::ssthresh_
    bytesInFlight,    \* NewReno::bytesInFlight_
    endOfRecovery,    \* NewReno::endOfRecovery_
    conn,             \* NewReno::conn_ : udpSendPacketLen, transportSettings, lossState
    outstanding,      \* the connection's outstanding packets: packet number -> encodedSize
    last,             \* the last NewReno operation: its name and arguments, what
                      \* they asked of the state they met, and what
                      \* getWritableBytes() returns after it
    \* ---- ClientHandshake (ClientHandshake.cpp) ----
    phase,              \* ClientHandshake::phase_
    error,              \* ClientHandshake::error_ ("none": no exception held)
    zeroRttRejected,    \* ClientHandshake::zeroRttRejected_, an Optional<bool>
    earlyDataAttempted, \* ClientHandshake::earlyDataAttempted_
    waitForData_,       \* ClientHandshake::waitForData_
    readBufs,           \* initialReadBuf_, handshakeReadBuf_, appDataReadBuf_
    slots,              \* the ten cipher members: the cipher held, 0 for nullptr
    nextCipher,         \* the ciphers built so far; each is numbered as built
    owned,              \* the ciphers the getters have handed to the caller
    readLevel,          \* the level state_.readRecordLayer() is reading at
    pc,                 \* "idle", or "processSocketData" inside doHandshake's loop
    hlast,              \* the last ClientHandshake operation and how it ended
    cryptoStreams,      \* cryptoState_: the bytes written to each crypto stream
    fed,                \* how much of the server's flight was delivered, per level
    \* ---- TimeUtil (quic/common/TimeUtil.h) ----
    durations,          \* the arguments of timeMin / timeMax
    timeOut,            \* the last call of timeMin / timeMax and what it returned
    \* ---- both ----
    aborted             \* the process ended in a fatal error

ccVars == <<cwndBytes, ssthresh, bytesInFlight, endOfRecovery, conn, outstanding,
            last>>

hsVars == <<phase, error, zeroRttRejected, earlyDataAttempted, waitForData_,
            readBufs, slots, nextCipher, owned, readLevel, pc, hlast,
            cryptoStreams, fed>>

timeVars == <<durations, timeOut>>

vars == <<cwndBytes, ssthresh, bytesInFlight, endOfRecovery, conn, outstanding,
          last, phase, error, zeroRttRejected, earlyDataAttempted, waitForData_,
          readBufs, slots, nextCipher, owned, readLevel, pc, hlast,
          cryptoStreams, fed, durations, timeOut, aborted>>

---------------------------------------------------------------------------
\* Bounds of the model.

\* Packet numbers run over 1..MaxPacketNum.
MaxPacketNum == 2

\* The connection of SpecConn sends the packets 1..MaxConnPackets.
MaxConnPackets == 3

\* onPacketSent is explored while bytesInFlight stays within MaxInflight.
MaxInflight == 2000

\* A read buffer of the handshake holds at most MaxBufLen bytes.
MaxBufLen == 2

\* computeCiphers is explored MaxInstalls times.
MaxInstalls == 2

\* A crypto stream is written while it holds at most MaxStreamLen bytes.
MaxStreamLen == 2

\* The CRYPTO data the record layer writes.
WriteData == {<<1>>, <<2>>, <<1, 2>>}

\* timeMin and timeMax are called with 2 .. MaxArgs durations.
MaxArgs == 4

\* The durations passed, in milliseconds.
Durations == {10, 20, 30, 40}

\* The handshake bytes the server sends at each level: ServerHello at
\* Initial, EncryptedExtensions .. Finished at Handshake and a
\* NewSessionTicket at AppData.
ServerFlight ==
    [Initial |-> <<1, 2, 3>>, Handshake |-> <<4, 5, 6>>, AppData |-> <<7, 8>>]

\* The CRYPTO data handed to doHandshake: nullptr (<<>>) or some bytes.
HandshakeData == {<<>>, <<1>>, <<1, 1>>}

\* The errors the record layer raises.
RaisedErrors == {"CRYPTO_ERROR"}

\* The encoded sizes of the packets sent.
EncodedSizes == {500, 1000}

\* The byte counts handed to ack, loss and remove events.
ByteAmounts == {0, 1000}

\* The configurations explored: conn.udpSendPacketLen and
\* conn.transportSettings.{init,min,max}CwndInMss.  The initial window is
\* above the maximum in the first, below the minimum in the second and
\* between the two in the others.
Configs ==
    { [udpSendPacketLen |-> 1252, initCwndInMss |-> 10, minCwndInMss |-> 2,
       maxCwndInMss |-> 4, largestSent |-> 0],
      [udpSendPacketLen |-> 1000, initCwndInMss |-> 1, minCwndInMss |-> 2,
       maxCwndInMss |-> 4, largestSent |-> 0],
      [udpSendPacketLen |-> 1000, initCwndInMss |-> 3, minCwndInMss |-> 1,
       maxCwndInMss |-> 4, largestSent |-> 0],
      [udpSendPacketLen |-> 1252, initCwndInMss |-> 3, minCwndInMss |-> 1,
       maxCwndInMss |-> 3, largestSent |-> 0] }

\* A configuration whose window reaches the 32-bit limit: 2 packets of
\* (kUInt32Max / 2) bytes here, as 4,000,000 packets of 1252 bytes do with
\* the limits of the source.
WideConfigs ==
    { [udpSendPacketLen |-> 1073741823, initCwndInMss |-> 2, minCwndInMss |-> 1,
       maxCwndInMss |-> 2, largestSent |-> 0] }

---------------------------------------------------------------------------
\* Program constants.

\* kRenoLossReductionFactorShift
kRenoLossReductionFactorShift == 1

\* std::numeric_limits<uint32_t>::max(), the initial ssthresh_
kUInt32Max == 2147483646

\* std::numeric_limits<uint64_t>::max(), the limit of addAndCheckOverflow
kUInt64Max == 2147483647

\* kDefaultUDPSendPacketLen (quic/QuicConstants.h): the smaller of the
\* default packet lengths over IPv4 (1252) and IPv6 (1232)
kDefaultUDPSendPacketLen == 1232

\* the initial value of bytesInFlight_ (NewReno.h)
kInitBytesInFlight == 0

\* the initial value of endOfRecovery_ (NewReno.h)
kInitEndOfRecovery == 0

---------------------------------------------------------------------------
\* Helpers.

Max(a, b) == IF a >= b THEN a ELSE b
Min(a, b) == IF a <= b THEN a ELSE b

RECURSIVE Pow2(_)
Pow2(n) == IF n = 0 THEN 1 ELSE 2 * Pow2(n - 1)

\* x >> n on an unsigned integer
ShiftRight(x, n) == x \div Pow2(n)

RECURSIVE SumOver(_, _)
\* the sum of f[x] over the finite set S
SumOver(f, S) ==
    IF S = {} THEN 0
    ELSE LET x == CHOOSE y \in S : TRUE IN f[x] + SumOver(f, S \ {x})

SetMax(S) == CHOOSE x \in S : \A y \in S : y <= x

\* folly::Optional: none, or a value
None == [has |-> FALSE, val |-> 0]
Some(v) == [has |-> TRUE, val |-> v]

---------------------------------------------------------------------------
\* CongestionControlFunctions.h

\* boundedCwnd(cwndBytes, packetLength, maxCwndInMss, minCwndInMss)
boundedCwnd(cwnd, packetLength, maxCwndInMss, minCwndInMss) ==
    Max(Min(cwnd, maxCwndInMss * packetLength), minCwndInMss * packetLength)

\* The state of a NewReno object, with the error an operation ended in.
NewRenoState ==
    [cwndBytes |-> cwndBytes, ssthresh |-> ssthresh,
     bytesInFlight |-> bytesInFlight, endOfRecovery |-> endOfRecovery,
     threw |-> "none"]

\* An unsigned subtraction that is not checked: it wraps around.
subtractAndCheckUnderflowWraps(s, toSub) ==
    IF s.bytesInFlight < toSub
    THEN [s EXCEPT !.bytesInFlight = s.bytesInFlight - toSub + kUInt64Max]
    ELSE [s EXCEPT !.bytesInFlight = s.bytesInFlight - toSub]

\* subtractAndCheckUnderflow(bytesInFlight_, toSub): fails on underflow,
\* leaving the value as it was.
subtractAndCheckUnderflow(s, toSub) ==
    IF s.bytesInFlight < toSub
    THEN [s EXCEPT !.threw = "underflow"]
    ELSE [s EXCEPT !.bytesInFlight = s.bytesInFlight - toSub]

\* addAndCheckOverflow(value, toAdd): fails on overflow, leaving the value.
addAndCheckOverflow(s, field, toAdd) ==
    IF s[field] > kUInt64Max - toAdd
    THEN [s EXCEPT !.threw = "overflow"]
    ELSE [s EXCEPT ![field] = s[field] + toAdd]

---------------------------------------------------------------------------
\* NewReno.cpp

\* NewReno::NewReno: cwndBytes_ after construction
InitCwndBytes(c) ==
    boundedCwnd(c.initCwndInMss * c.udpSendPacketLen,
                c.udpSendPacketLen, c.maxCwndInMss, c.minCwndInMss)

\* onRemoveBytesFromInflight with a plain, unchecked subtraction
onRemoveBytesFromInflightUnchecked(s, bytes) ==
    subtractAndCheckUnderflowWraps(s, bytes)

\* NewReno::onRemoveBytesFromInflight(bytes)
onRemoveBytesFromInflight(s, bytes) ==
    subtractAndCheckUnderflow(s, bytes)

\* onPacketSent that forgets to count the packet
onPacketSentNoAdd(s, encodedSize) == s

\* NewReno::onPacketSent(packet)
onPacketSent(s, encodedSize) ==
    addAndCheckOverflow(s, "bytesInFlight", encodedSize)

\* onPacketAcked without the early return during recovery
onPacketAckedGrowsInRecovery(s, c, ack) ==
    LET s1 == subtractAndCheckUnderflow(s, ack.ackedBytes) IN
    IF s1.threw # "none" THEN s1
    ELSE LET s2 == addAndCheckOverflow(s1, "cwndBytes", ack.ackedBytes) IN
         IF s2.threw # "none" THEN s2
         ELSE [s2 EXCEPT !.cwndBytes =
                 boundedCwnd(s2.cwndBytes, c.udpSendPacketLen,
                             c.maxCwndInMss, c.minCwndInMss)]

\* onPacketAcked without the final boundedCwnd
onPacketAckedUnbounded(s, c, ack) ==
    LET s1 == subtractAndCheckUnderflow(s, ack.ackedBytes) IN
    IF s1.threw # "none" THEN s1
    ELSE IF ack.largestAckedPacket.val < s1.endOfRecovery THEN s1
    ELSE IF s1.cwndBytes < s1.ssthresh
         THEN addAndCheckOverflow(s1, "cwndBytes", ack.ackedBytes)
         ELSE addAndCheckOverflow(s1, "cwndBytes",
                 (kDefaultUDPSendPacketLen * ack.ackedBytes) \div s1.cwndBytes)

\* onPacketAcked that grows by the connection's packet length in congestion
\* avoidance
onPacketAckedConnLen(s, c, ack) ==
    LET s1 == subtractAndCheckUnderflow(s, ack.ackedBytes) IN
    IF s1.threw # "none" THEN s1
    ELSE IF ack.largestAckedPacket.val < s1.endOfRecovery THEN s1
    ELSE LET s2 == IF s1.cwndBytes < s1.ssthresh
                   THEN addAndCheckOverflow(s1, "cwndBytes", ack.ackedBytes)
                   ELSE addAndCheckOverflow(s1, "cwndBytes",
                          (c.udpSendPacketLen * ack.ackedBytes)
                              \div s1.cwndBytes)
         IN IF s2.threw # "none" THEN s2
            ELSE [s2 EXCEPT !.cwndBytes =
                    boundedCwnd(s2.cwndBytes, c.udpSendPacketLen,
                                c.maxCwndInMss, c.minCwndInMss)]

\* onPacketAcked that ends the recovery epoch at an ack beyond it
onPacketAckedEndsRecovery(s, c, ack) ==
    LET s1 == subtractAndCheckUnderflow(s, ack.ackedBytes) IN
    IF s1.threw # "none" THEN s1
    ELSE IF ack.largestAckedPacket.val < s1.endOfRecovery THEN s1
    ELSE LET s2 == IF s1.cwndBytes < s1.ssthresh
                   THEN addAndCheckOverflow(s1, "cwndBytes", ack.ackedBytes)
                   ELSE addAndCheckOverflow(s1, "cwndBytes",
                          (kDefaultUDPSendPacketLen * ack.ackedBytes)
                              \div s1.cwndBytes)
         IN IF s2.threw # "none" THEN s2
            ELSE [s2 EXCEPT !.endOfRecovery = kInitEndOfRecovery,
                            !.cwndBytes =
                    boundedCwnd(s2.cwndBytes, c.udpSendPacketLen,
                                c.maxCwndInMss, c.minCwndInMss)]

\* NewReno::onPacketAcked(ack), ack = [ackedBytes, largestAckedPacket]
onPacketAcked(s, c, ack) ==
    LET s1 == subtractAndCheckUnderflow(s, ack.ackedBytes) IN
    IF s1.threw # "none" THEN s1
    ELSE IF ack.largestAckedPacket.val < s1.endOfRecovery THEN s1
    ELSE LET s2 == IF s1.cwndBytes < s1.ssthresh
                   THEN addAndCheckOverflow(s1, "cwndBytes", ack.ackedBytes)
                   ELSE addAndCheckOverflow(s1, "cwndBytes",
                          (kDefaultUDPSendPacketLen * ack.ackedBytes)
                              \div s1.cwndBytes)
         IN IF s2.threw # "none" THEN s2
            ELSE [s2 EXCEPT !.cwndBytes =
                    boundedCwnd(s2.cwndBytes, c.udpSendPacketLen,
                                c.maxCwndInMss, c.minCwndInMss)]

\* onPacketLoss that leaves ssthresh_ as it was
onPacketLossNoSsthresh(s, c, loss) ==
    LET s1 == subtractAndCheckUnderflow(s, loss.lostBytes) IN
    IF s1.threw # "none" THEN s1
    ELSE IF s1.endOfRecovery < loss.largestLostPacketNum.val
         THEN [s1 EXCEPT
                 !.endOfRecovery = c.largestSent,
                 !.cwndBytes =
                     boundedCwnd(ShiftRight(s1.cwndBytes,
                                            kRenoLossReductionFactorShift),
                                 c.udpSendPacketLen,
                                 c.maxCwndInMss, c.minCwndInMss)]
         ELSE s1

\* onPacketLoss that reduces the window at every loss
onPacketLossEveryLoss(s, c, loss) ==
    LET s1 == subtractAndCheckUnderflow(s, loss.lostBytes) IN
    IF s1.threw # "none" THEN s1
    ELSE LET cw == boundedCwnd(ShiftRight(s1.cwndBytes,
                                          kRenoLossReductionFactorShift),
                               c.udpSendPacketLen,
                               c.maxCwndInMss, c.minCwndInMss)
         IN [s1 EXCEPT !.endOfRecovery = c.largestSent,
                       !.cwndBytes = cw,
                       !.ssthresh = cw]

\* NewReno::onPacketLoss(loss), loss = [lostBytes, largestLostPacketNum]
onPacketLoss(s, c, loss) ==
    LET s1 == subtractAndCheckUnderflow(s, loss.lostBytes) IN
    IF s1.threw # "none" THEN s1
    ELSE IF s1.endOfRecovery < loss.largestLostPacketNum.val
         THEN LET cw == boundedCwnd(ShiftRight(s1.cwndBytes,
                                               kRenoLossReductionFactorShift),
                                    c.udpSendPacketLen,
                                    c.maxCwndInMss, c.minCwndInMss)
              IN [s1 EXCEPT !.endOfRecovery = c.largestSent,
                            !.cwndBytes = cw,
                            !.ssthresh = cw]
         ELSE s1

\* onPacketAckOrLoss that applies the ack before the loss
onPacketAckOrLossAckFirst(s, c, ackEvent, lossEvent) ==
    LET s1 == IF ackEvent.has /\ ackEvent.val.largestAckedPacket.has
              THEN onPacketAcked(s, c, ackEvent.val)
              ELSE s
    IN IF s1.threw # "none" THEN s1
       ELSE IF lossEvent.has THEN onPacketLoss(s1, c, lossEvent.val) ELSE s1

\* onPacketAckOrLoss that applies every ack event it is given
onPacketAckOrLossAnyAck(s, c, ackEvent, lossEvent) ==
    LET s1 == IF lossEvent.has THEN onPacketLoss(s, c, lossEvent.val) ELSE s IN
    IF s1.threw # "none" THEN s1
    ELSE IF ackEvent.has
         THEN onPacketAcked(s1, c, ackEvent.val)
         ELSE s1

\* NewReno::onPacketAckOrLoss(ackEvent, lossEvent): both are optional
onPacketAckOrLoss(s, c, ackEvent, lossEvent) ==
    LET s1 == IF lossEvent.has THEN onPacketLoss(s, c, lossEvent.val) ELSE s IN
    IF s1.threw # "none" THEN s1
    ELSE IF ackEvent.has /\ ackEvent.val.largestAckedPacket.has
         THEN onPacketAcked(s1, c, ackEvent.val)
         ELSE s1

\* onRTOVerified that also starts slow start afresh
onRTOVerifiedResets(s, c) ==
    [s EXCEPT !.cwndBytes = c.minCwndInMss * c.udpSendPacketLen,
              !.ssthresh = kUInt32Max]

\* NewReno::onRTOVerified()
onRTOVerified(s, c) ==
    [s EXCEPT !.cwndBytes = c.minCwndInMss * c.udpSendPacketLen]

\* getWritableBytes as the plain unsigned difference
getWritableBytesUnchecked(s) ==
    IF s.bytesInFlight > s.cwndBytes
    THEN s.cwndBytes - s.bytesInFlight + kUInt64Max
    ELSE s.cwndBytes - s.bytesInFlight

\* NewReno::getWritableBytes(): an unsigned 64-bit result
getWritableBytes(s) ==
    IF s.bytesInFlight > s.cwndBytes
    THEN 0
    ELSE s.cwndBytes - s.bytesInFlight

\* NewReno::inSlowStart()
inSlowStart(s) == s.cwndBytes < s.ssthresh

---------------------------------------------------------------------------
\* ClientHandshake.cpp

Phases == <<"Initial", "Handshake", "OneRttKeysDerived", "Established">>

\* The place of a phase in the order of ClientHandshake::Phase.
PhaseRank(p) == CHOOSE i \in 1..Len(Phases) : Phases[i] = p

EncryptionLevels == {"Initial", "Handshake", "EarlyData", "AppData"}

CipherKinds == {"HandshakeWrite", "HandshakeRead", "OneRttWrite", "OneRttRead",
                "ZeroRttWrite"}

\* The member computeCiphers(kind) stores the Aead in.
AeadSlot(kind) ==
    CASE kind = "HandshakeWrite" -> "handshakeWriteCipher_"
      [] kind = "HandshakeRead" -> "handshakeReadCipher_"
      [] kind = "OneRttWrite" -> "oneRttWriteCipher_"
      [] kind = "OneRttRead" -> "oneRttReadCipher_"
      [] kind = "ZeroRttWrite" -> "zeroRttWriteCipher_"

\* The member computeCiphers(kind) stores the packet number cipher in.
HeaderSlot(kind) ==
    CASE kind = "HandshakeWrite" -> "handshakeWriteHeaderCipher_"
      [] kind = "HandshakeRead" -> "handshakeReadHeaderCipher_"
      [] kind = "OneRttWrite" -> "oneRttWriteHeaderCipher_"
      [] kind = "OneRttRead" -> "oneRttReadHeaderCipher_"
      [] kind = "ZeroRttWrite" -> "zeroRttWriteHeaderCipher_"

CipherSlots ==
    {AeadSlot(k) : k \in CipherKinds} \cup {HeaderSlot(k) : k \in CipherKinds}

\* The read buffer doHandshake uses for an encryption level.
ReadBufOf(level) ==
    CASE level = "Initial" -> "initialReadBuf_"
      [] level = "Handshake" -> "handshakeReadBuf_"
      [] level \in {"EarlyData", "AppData"} -> "appDataReadBuf_"

\* ClientHandshake::ClientHandshake(cryptoState): the members as constructed.
ClientHandshakeInit ==
    /\ phase = "Initial"
    /\ error = "none"
    /\ zeroRttRejected = None
    /\ earlyDataAttempted = FALSE
    /\ waitForData_ = FALSE
    /\ readBufs = [initialReadBuf_ |-> <<>>, handshakeReadBuf_ |-> <<>>,
                   appDataReadBuf_ |-> <<>>]
    /\ slots = [s \in CipherSlots |-> 0]
    /\ nextCipher = 0
    /\ owned = {}
    /\ readLevel = "Initial"
    /\ pc = "idle"
    /\ hlast = [op |-> "ClientHandshake", threw |-> FALSE]
    /\ cryptoStreams = [initialStream |-> <<>>, handshakeStream |-> <<>>,
                        oneRttStream |-> <<>>]
    /\ fed = [Initial |-> 0, Handshake |-> 0, AppData |-> 0]

\* ClientHandshake::doHandshake(data, encryptionLevel), up to the loop:
\* the phase it leaves
doHandshakePhase(p) == IF p = "Initial" THEN "Handshake" ELSE p

\* doHandshake that keeps only the bytes of the last call
doHandshakeReplace(bufs, data, encryptionLevel) ==
    [bufs EXCEPT ![ReadBufOf(encryptionLevel)] = data]

\* ClientHandshake::doHandshake: the read buffers with data appended
doHandshakeAppend(bufs, data, encryptionLevel) ==
    [bufs EXCEPT ![ReadBufOf(encryptionLevel)] = @ \o data]

\* ClientHandshake::onRecvOneRttProtectedData(): the phase it leaves
onRecvOneRttProtectedData(p) == IF p # "Established" THEN "Established" ELSE p

\* A getter that returns a copy and leaves the member as it was
getCipherCopies(err, held) ==
    IF err # "none" THEN [threw |-> TRUE, ret |-> 0, held |-> held]
    ELSE [threw |-> FALSE, ret |-> held, held |-> held]

\* A getter that does not look at error_
getCipherIgnoresError(err, held) ==
    [threw |-> FALSE, ret |-> held, held |-> 0]

\* A cipher getter: if (error_) throw; return std::move(member).
\* The result: whether it threw, what it returned, and the member afterwards.
getCipher(err, held) ==
    IF err # "none" THEN [threw |-> TRUE, ret |-> 0, held |-> held]
    ELSE [threw |-> FALSE, ret |-> held, held |-> 0]

\* ClientHandshake::getZeroRttRejected(): return std::move(zeroRttRejected_);
\* a moved-from folly::Optional is empty.
getZeroRttRejected(z) == [ret |-> z, zeroRttRejected |-> None]

\* ClientHandshake::computeCiphers(kind, secret): the members after the Aead
\* `aead` and the packet number cipher `packetNumberCipher` are stored.
computeCiphers(sl, kind, aead, packetNumberCipher) ==
    IF kind \in CipherKinds
    THEN [sl EXCEPT ![AeadSlot(kind)] = aead,
                    ![HeaderSlot(kind)] = packetNumberCipher]
    ELSE sl

\* ClientHandshake::raiseError(error)
raiseError(e) == e

\* getCryptoStream(cryptoState, encryptionLevel) (QuicStreamFunctions.h):
\* the stream of a level; there is none for EarlyData, whose bytes go with
\* the handshake's.
getCryptoStream(encryptionLevel) ==
    CASE encryptionLevel = "Initial" -> "initialStream"
      [] encryptionLevel = "Handshake" -> "handshakeStream"
      [] encryptionLevel = "EarlyData" -> "handshakeStream"
      [] encryptionLevel = "AppData" -> "oneRttStream"

\* writeDataToQuicStream(stream, data) (QuicStreamFunctions.h): data is
\* appended to what the stream has to send.
writeDataToQuicStream(streams, stream, data) ==
    [streams EXCEPT ![stream] = @ \o data]

\* writeDataToStream that writes at every level
writeDataToStreamNoDrop(streams, encryptionLevel, data) ==
    writeDataToQuicStream(streams, getCryptoStream(encryptionLevel), data)

\* ClientHandshake::writeDataToStream(encryptionLevel, data): the crypto
\* streams afterwards
writeDataToStream(streams, encryptionLevel, data) ==
    IF encryptionLevel = "AppData"
    THEN streams
    ELSE writeDataToQuicStream(streams, getCryptoStream(encryptionLevel), data)

\* computeOneRttCipher that does not record the rejection
computeOneRttCipherNoVerdict(h, earlyDataAccepted, earlyParametersMatch) ==
    IF h.earlyDataAttempted /\ ~earlyDataAccepted /\ ~earlyParametersMatch
    THEN [h EXCEPT !.error = "EARLY_DATA_REJECTED"]
    ELSE [h EXCEPT !.phase = "OneRttKeysDerived"]

\* computeOneRttCipher without the return after storing the error
computeOneRttCipherNoReturn(h, earlyDataAccepted, earlyParametersMatch) ==
    IF h.earlyDataAttempted /\ ~earlyDataAccepted
    THEN IF earlyParametersMatch
         THEN [h EXCEPT !.zeroRttRejected = Some(TRUE),
                        !.phase = "OneRttKeysDerived"]
         ELSE [h EXCEPT !.error = "EARLY_DATA_REJECTED",
                        !.phase = "OneRttKeysDerived"]
    ELSE [h EXCEPT !.phase = "OneRttKeysDerived"]

\* ClientHandshake::computeOneRttCipher(earlyDataAccepted), on
\* h = [phase, error, zeroRttRejected, earlyDataAttempted];
\* earlyParametersMatch is what fizz::client::earlyParametersMatch(state_) says.
computeOneRttCipher(h, earlyDataAccepted, earlyParametersMatch) ==
    IF h.earlyDataAttempted /\ ~earlyDataAccepted
    THEN IF earlyParametersMatch
         THEN [h EXCEPT !.zeroRttRejected = Some(TRUE),
                        !.phase = "OneRttKeysDerived"]
         ELSE [h EXCEPT !.error = "EARLY_DATA_REJECTED"]
    ELSE [h EXCEPT !.phase = "OneRttKeysDerived"]

---------------------------------------------------------------------------
\* quic/common/TimeUtil.h, as TimeUtilTest.cpp uses it

\* timeMin that looks at its first two arguments only
timeMinFirstTwo(args) == Min(args[1], args[2])

RECURSIVE timeMin(_)
\* timeMin(a, b, args...): std::min of the first two, then of the result and
\* the rest
timeMin(args) ==
    IF Len(args) = 1 THEN args[1]
    ELSE timeMin(<<Min(args[1], args[2])>> \o SubSeq(args, 3, Len(args)))

RECURSIVE timeMax(_)
\* timeMax(a, b, args...): std::max of the first two, then of the result and
\* the rest
timeMax(args) ==
    IF Len(args) = 1 THEN args[1]
    ELSE timeMax(<<Max(args[1], args[2])>> \o SubSeq(args, 3, Len(args)))

---------------------------------------------------------------------------
\* The congestion controller driven through its interface.

\* The events the loss detection hands over: packet numbers are those of
\* packets that were sent.
AckEvents ==
    [ackedBytes : ByteAmounts,
     largestAckedPacket : {None} \cup {Some(n) : n \in 0..conn.largestSent}]

LossEvents ==
    [lostBytes : ByteAmounts,
     largestLostPacketNum : {Some(n) : n \in 0..conn.largestSent}]

\* What an event asks of the state s it meets.
IsNewEpoch(s, lossEvent) ==
    lossEvent.has /\ s.endOfRecovery < lossEvent.val.largestLostPacketNum.val

IsAckInRecovery(s, ackEvent) ==
    /\ ackEvent.has /\ ackEvent.val.largestAckedPacket.has
    /\ ackEvent.val.largestAckedPacket.val < s.endOfRecovery

NoArgs == [bytes |-> 0, ack |-> None, loss |-> None]

\* Store the result r of operation op and what the operation was given.
Apply(r, op, args) ==
    /\ cwndBytes' = r.cwndBytes
    /\ ssthresh' = r.ssthresh
    /\ bytesInFlight' = r.bytesInFlight
    /\ endOfRecovery' = r.endOfRecovery
    /\ aborted' = (r.threw # "none")
    /\ UNCHANGED <<hsVars, timeVars>>
    /\ last' = [op |-> op, args |-> args,
                newEpoch |-> IsNewEpoch(NewRenoState, args.loss),
                inRecovery |-> IsAckInRecovery(
                    [NewRenoState EXCEPT !.endOfRecovery = r.endOfRecovery],
                    args.ack),
                writable |-> getWritableBytes(r)]

\* NewReno::NewReno(conn)
NewRenoInit(c) ==
    /\ conn = c
    /\ cwndBytes = InitCwndBytes(conn)
    /\ ssthresh = kUInt32Max
    /\ bytesInFlight = kInitBytesInFlight
    /\ endOfRecovery = kInitEndOfRecovery
    /\ outstanding = <<>>
    /\ last = [op |-> "NewReno", args |-> NoArgs,
               newEpoch |-> FALSE, inRecovery |-> FALSE,
               writable |-> getWritableBytes(NewRenoState)]

\* No call of timeMin or timeMax was made.
NoTimeCall ==
    /\ durations = <<>>
    /\ timeOut = [op |-> "none", ret |-> 0]

Init ==
    /\ \E c \in Configs : NewRenoInit(c)
    /\ ClientHandshakeInit
    /\ NoTimeCall
    /\ aborted = FALSE

\* The transport sends the next packet and reports it.
PacketSent ==
    \E size \in EncodedSizes :
        /\ ~aborted
        /\ conn.largestSent < MaxPacketNum
        /\ bytesInFlight + size <= MaxInflight
        /\ conn' = [conn EXCEPT !.largestSent = conn.largestSent + 1]
        /\ Apply(onPacketSent(NewRenoState, size), "onPacketSent",
                 [NoArgs EXCEPT !.bytes = size])
        /\ UNCHANGED outstanding

PacketAcked ==
    \E ack \in AckEvents :
        /\ ~aborted
        /\ ack.largestAckedPacket.has
        /\ Apply(onPacketAcked(NewRenoState, conn, ack), "onPacketAcked",
                 [NoArgs EXCEPT !.ack = Some(ack)])
        /\ UNCHANGED <<conn, outstanding>>

PacketLoss ==
    \E loss \in LossEvents :
        /\ ~aborted
        /\ Apply(onPacketLoss(NewRenoState, conn, loss), "onPacketLoss",
                 [NoArgs EXCEPT !.loss = Some(loss)])
        /\ UNCHANGED <<conn, outstanding>>

PacketAckOrLoss ==
    \E ackEvent \in {None} \cup {Some(a) : a \in AckEvents},
       lossEvent \in {None} \cup {Some(l) : l \in LossEvents} :
        /\ ~aborted
        /\ Apply(onPacketAckOrLoss(NewRenoState, conn, ackEvent, lossEvent),
                 "onPacketAckOrLoss",
                 [NoArgs EXCEPT !.ack = ackEvent, !.loss = lossEvent])
        /\ UNCHANGED <<conn, outstanding>>

RTOVerified ==
    /\ ~aborted
    /\ Apply(onRTOVerified(NewRenoState, conn), "onRTOVerified", NoArgs)
    /\ UNCHANGED <<conn, outstanding>>

RemoveBytesFromInflight ==
    \E bytes \in ByteAmounts :
        /\ ~aborted
        /\ Apply(onRemoveBytesFromInflight(NewRenoState, bytes),
                 "onRemoveBytesFromInflight", [NoArgs EXCEPT !.bytes = bytes])
        /\ UNCHANGED <<conn, outstanding>>

Next ==
    \/ PacketSent
    \/ PacketAcked
    \/ PacketLoss
    \/ PacketAckOrLoss
    \/ RTOVerified
    \/ RemoveBytesFromInflight

Spec == Init /\ [][Next]_vars

\* The congestion controller configured with a window that reaches the
\* 32-bit limit.
InitWide ==
    /\ \E c \in WideConfigs : NewRenoInit(c)
    /\ ClientHandshakeInit
    /\ NoTimeCall
    /\ aborted = FALSE

SpecWide == InitWide /\ [][Next]_vars

---------------------------------------------------------------------------
\* The congestion controller driven by the connection, which keeps the set
\* of outstanding packets: a packet enters it when sent and leaves it when
\* acked, declared lost, or discarded with its packet number space.

OutstandingBytes(S) == SumOver(outstanding, S)

Without(S) == [n \in (DOMAIN outstanding) \ S |-> outstanding[n]]

AckEventOf(S) ==
    IF S = {} THEN None
    ELSE Some([ackedBytes |-> OutstandingBytes(S),
               largestAckedPacket |-> Some(SetMax(S))])

LossEventOf(S) ==
    IF S = {} THEN None
    ELSE Some([lostBytes |-> OutstandingBytes(S),
               largestLostPacketNum |-> Some(SetMax(S))])

ConnPacketSent ==
    \E size \in EncodedSizes :
        /\ ~aborted
        /\ conn.largestSent < MaxConnPackets
        /\ conn' = [conn EXCEPT !.largestSent = conn.largestSent + 1]
        /\ outstanding' =
              [n \in (DOMAIN outstanding) \cup {conn.largestSent + 1} |->
                  IF n = conn.largestSent + 1 THEN size ELSE outstanding[n]]
        /\ Apply(onPacketSent(NewRenoState, size), "onPacketSent",
                 [NoArgs EXCEPT !.bytes = size])

ConnPacketAckOrLoss ==
    \E acked \in SUBSET (DOMAIN outstanding) :
    \E lost \in SUBSET ((DOMAIN outstanding) \ acked) :
        /\ ~aborted
        /\ acked \cup lost # {}
        /\ LET ackEvent == AckEventOf(acked)
               lossEvent == LossEventOf(lost)
           IN Apply(onPacketAckOrLoss(NewRenoState, conn, ackEvent, lossEvent),
                    "onPacketAckOrLoss",
                    [NoArgs EXCEPT !.ack = ackEvent, !.loss = lossEvent])
        /\ outstanding' = Without(acked \cup lost)
        /\ UNCHANGED conn

ConnDiscard ==
    \E gone \in (SUBSET (DOMAIN outstanding)) \ {{}} :
        /\ ~aborted
        /\ Apply(onRemoveBytesFromInflight(NewRenoState, OutstandingBytes(gone)),
                 "onRemoveBytesFromInflight",
                 [NoArgs EXCEPT !.bytes = OutstandingBytes(gone)])
        /\ outstanding' = Without(gone)
        /\ UNCHANGED conn

ConnRTOVerified ==
    /\ ~aborted
    /\ Apply(onRTOVerified(NewRenoState, conn), "onRTOVerified", NoArgs)
    /\ UNCHANGED <<conn, outstanding>>

NextConn ==
    \/ ConnPacketSent
    \/ ConnPacketAckOrLoss
    \/ ConnDiscard
    \/ ConnRTOVerified

SpecConn == Init /\ [][NextConn]_vars

---------------------------------------------------------------------------
\* Properties of the congestion controller.

MinCwndBytes == conn.minCwndInMss * conn.udpSendPacketLen
MaxCwndBytes == conn.maxCwndInMss * conn.udpSendPacketLen

\* C1: with minCwndInMss <= maxCwndInMss, in every state reached from
\* construction by the operations of the controller, cwndBytes lies in
\* [minCwndInMss * udpSendPacketLen, maxCwndInMss * udpSendPacketLen].
C1_CwndWithinBounds ==
    conn.minCwndInMss <= conn.maxCwndInMss =>
        (MinCwndBytes <= cwndBytes /\ cwndBytes <= MaxCwndBytes)

\* An ack of a positive number of bytes has left the window at its maximum.
C1_Witness ==
    /\ last.op = "onPacketAcked"
    /\ ~aborted
    /\ last.args.ack.val.ackedBytes > 0
    /\ ~last.inRecovery
    /\ cwndBytes = MaxCwndBytes

\* C3: in every state of the connection, bytesInFlight is not negative and
\* is the sum of the encoded sizes of the outstanding packets.
C3_InflightIsOutstanding ==
    /\ bytesInFlight >= 0
    /\ bytesInFlight = OutstandingBytes(DOMAIN outstanding)

\* Packets were acked and lost in one event and another is still outstanding.
C3_Witness ==
    /\ last.op = "onPacketAckOrLoss"
    /\ last.args.ack.has /\ last.args.loss.has
    /\ DOMAIN outstanding # {}
    /\ bytesInFlight > 0

\* C4: an onPacketLoss that returns, given a loss with
\* endOfRecovery < largestLostPacketNum, sets endOfRecovery to the largest
\* sent packet number, cwndBytes to max(minCwndInMss * udpSendPacketLen,
\* floor(cwndBytes / 2)) and ssthresh to the new cwndBytes.
C4_NewEpochLoss ==
    [][(/\ last'.op = "onPacketLoss"
        /\ ~aborted'
        /\ endOfRecovery < last'.args.loss.val.largestLostPacketNum.val)
       => (/\ endOfRecovery' = conn.largestSent
           /\ cwndBytes' = Max(MinCwndBytes, cwndBytes \div 2)
           /\ ssthresh' = cwndBytes'
           /\ cwndBytes' >= MinCwndBytes)]_vars

\* A loss has started a recovery epoch and half the window was below the
\* minimum.
C4_Witness ==
    /\ last.op = "onPacketLoss"
    /\ last.newEpoch
    /\ ~aborted
    /\ cwndBytes = MinCwndBytes
    /\ ssthresh = cwndBytes

\* C5: an onPacketAcked that returns, given an ack whose largest acked packet
\* number is below endOfRecovery, subtracts ackedBytes from bytesInFlight and
\* leaves cwndBytes and ssthresh as they were.
C5_NoGrowthInRecovery ==
    [][(/\ last'.op = "onPacketAcked"
        /\ ~aborted'
        /\ last'.args.ack.val.largestAckedPacket.val < endOfRecovery)
       => (/\ cwndBytes' = cwndBytes
           /\ ssthresh' = ssthresh
           /\ bytesInFlight' = bytesInFlight - last'.args.ack.val.ackedBytes)]_vars

\* An ack of a positive number of bytes arrived during recovery, with room
\* for the window to grow.
C5_Witness ==
    /\ last.op = "onPacketAcked"
    /\ last.inRecovery
    /\ ~aborted
    /\ last.args.ack.val.ackedBytes > 0
    /\ cwndBytes < MaxCwndBytes

\* C6: in every reachable state getWritableBytes returns
\* max(0, cwndBytes - bytesInFlight): 0 when bytesInFlight > cwndBytes, the
\* difference otherwise, and never a negative or wrapped-around value.
C6_WritableBytes ==
    /\ last.writable = Max(0, cwndBytes - bytesInFlight)
    /\ last.writable >= 0
    /\ last.writable <= cwndBytes
    /\ bytesInFlight > cwndBytes => last.writable = 0

\* An RTO has shrunk the window below the bytes in flight.
C6_Witness ==
    /\ last.op = "onRTOVerified"
    /\ bytesInFlight > cwndBytes
    /\ last.writable = 0

\* C10: onPacketAcked, onPacketLoss and onRemoveBytesFromInflight given more
\* bytes than bytesInFlight holds end in a fatal error with bytesInFlight as
\* it was; given no more, they subtract exactly the bytes; bytesInFlight
\* never wraps around.
SubtractedBytes(l) ==
    CASE l.op = "onPacketAcked" -> l.args.ack.val.ackedBytes
      [] l.op = "onPacketLoss" -> l.args.loss.val.lostBytes
      [] l.op = "onRemoveBytesFromInflight" -> l.args.bytes
      [] OTHER -> 0

C10_UnderflowIsFatal ==
    [][(last'.op \in {"onPacketAcked", "onPacketLoss",
                      "onRemoveBytesFromInflight"})
       => (/\ IF SubtractedBytes(last') > bytesInFlight
              THEN aborted' /\ bytesInFlight' = bytesInFlight
              ELSE bytesInFlight' = bytesInFlight - SubtractedBytes(last')
           /\ 0 <= bytesInFlight'
           /\ bytesInFlight' <= bytesInFlight)]_vars

\* onRemoveBytesFromInflight was given more bytes than were in flight.
C10_Witness ==
    /\ last.op = "onRemoveBytesFromInflight"
    /\ last.args.bytes > bytesInFlight
    /\ aborted

\* C15: as long as no loss has started a recovery epoch (endOfRecovery is
\* as constructed; an epoch sets it to the number of a packet sent),
\* cwndBytes < ssthresh and inSlowStart() returns true.
C15_SlowStartUntilLoss ==
    endOfRecovery = kInitEndOfRecovery
    => (cwndBytes < ssthresh /\ inSlowStart(NewRenoState))
\* C16: an onPacketAcked that returns, given an ack with
\* largestAckedPacket >= endOfRecovery, sets cwndBytes to cwndBytes +
\* ackedBytes if cwndBytes < ssthresh, and otherwise to cwndBytes +
\* floor(kDefaultUDPSendPacketLen * ackedBytes / cwndBytes), bounded to
\* [minCwndInMss, maxCwndInMss] * udpSendPacketLen; no ack makes the window
\* smaller.
C16_AckGrowth ==
    [][(last'.op = "onPacketAcked" /\ ~aborted')
       => LET ack == last'.args.ack.val
              grown == IF cwndBytes < ssthresh
                       THEN cwndBytes + ack.ackedBytes
                       ELSE cwndBytes + (kDefaultUDPSendPacketLen * ack.ackedBytes)
                                            \div cwndBytes
          IN /\ ack.largestAckedPacket.val >= endOfRecovery =>
                   cwndBytes' = Max(MinCwndBytes, Min(MaxCwndBytes, grown))
             /\ cwndBytes' >= cwndBytes
             /\ ssthresh' = ssthresh]_vars

\* The first ack after a loss grew the window in congestion avoidance, on a
\* connection whose packet length is not the default.
C16_Witness ==
    /\ last.op = "onPacketAcked"
    /\ ~aborted
    /\ ~last.inRecovery
    /\ last.args.ack.val.ackedBytes > 0
    /\ conn.udpSendPacketLen # kDefaultUDPSendPacketLen
    /\ cwndBytes = ssthresh + (kDefaultUDPSendPacketLen
                                  * last.args.ack.val.ackedBytes) \div ssthresh
    /\ cwndBytes < MaxCwndBytes

\* C17: an onPacketLoss that returns, given a loss with
\* largestLostPacketNum <= endOfRecovery, subtracts lostBytes from
\* bytesInFlight and leaves cwndBytes, ssthresh and endOfRecovery as they
\* were.
C17_LossInsideEpoch ==
    [][(/\ last'.op = "onPacketLoss"
        /\ ~aborted'
        /\ last'.args.loss.val.largestLostPacketNum.val <= endOfRecovery)
       => (/\ cwndBytes' = cwndBytes
           /\ ssthresh' = ssthresh
           /\ endOfRecovery' = endOfRecovery
           /\ bytesInFlight' = bytesInFlight
                                   - last'.args.loss.val.lostBytes)]_vars

\* Bytes were lost inside a recovery epoch, with the window still above its
\* minimum.
C17_Witness ==
    /\ last.op = "onPacketLoss"
    /\ ~last.newEpoch
    /\ ~aborted
    /\ last.args.loss.val.lostBytes > 0
    /\ last.args.loss.val.largestLostPacketNum.val > 0
    /\ endOfRecovery > 0
    /\ cwndBytes > MinCwndBytes

\* C18: onRTOVerified sets cwndBytes to minCwndInMss * udpSendPacketLen and
\* leaves ssthresh, bytesInFlight and endOfRecovery as they were.
C18_RTOCollapse ==
    [][(last'.op = "onRTOVerified")
       => (/\ cwndBytes' = MinCwndBytes
           /\ ssthresh' = ssthresh
           /\ bytesInFlight' = bytesInFlight
           /\ endOfRecovery' = endOfRecovery
           /\ ~aborted')]_vars

\* An RTO was verified after a loss, with bytes in flight, and the window
\* fell below ssthresh.
C18_Witness ==
    /\ last.op = "onRTOVerified"
    /\ cwndBytes = MinCwndBytes
    /\ ssthresh # kUInt32Max
    /\ ssthresh > cwndBytes
    /\ bytesInFlight > 0
    /\ endOfRecovery > 0

\* C21: an onPacketAckOrLoss that returns, given both a loss event and an
\* ack event with a largest acked packet, applies the loss first and decides
\* the ack's growth against the endOfRecovery, cwndBytes and ssthresh the
\* loss produced: when the loss starts a recovery epoch, an ack below the new
\* endOfRecovery leaves the window at the halved value, and an ack at or
\* beyond it grows the halved window in congestion avoidance; when the loss
\* starts no epoch, the ack acts on the state as it was.
C21_LossBeforeAck ==
    [][(/\ last'.op = "onPacketAckOrLoss"
        /\ ~aborted'
        /\ last'.args.loss.has
        /\ last'.args.ack.has
        /\ last'.args.ack.val.largestAckedPacket.has)
       => LET loss == last'.args.loss.val
              ack == last'.args.ack.val
              halved == Max(MinCwndBytes, cwndBytes \div 2)
              bounded(w) == Max(MinCwndBytes, Min(MaxCwndBytes, w))
          IN /\ bytesInFlight' = bytesInFlight - loss.lostBytes - ack.ackedBytes
             /\ IF endOfRecovery < loss.largestLostPacketNum.val
                THEN /\ endOfRecovery' = conn.largestSent
                     /\ ssthresh' = halved
                     /\ IF ack.largestAckedPacket.val < conn.largestSent
                        THEN cwndBytes' = halved
                        ELSE cwndBytes' =
                                 bounded(halved + (kDefaultUDPSendPacketLen
                                                      * ack.ackedBytes)
                                                      \div halved)
                ELSE /\ endOfRecovery' = endOfRecovery
                     /\ ssthresh' = ssthresh
                     /\ IF ack.largestAckedPacket.val < endOfRecovery
                        THEN cwndBytes' = cwndBytes
                        ELSE cwndBytes' =
                                 bounded(IF cwndBytes < ssthresh
                                         THEN cwndBytes + ack.ackedBytes
                                         ELSE cwndBytes
                                              + (kDefaultUDPSendPacketLen
                                                    * ack.ackedBytes)
                                                    \div cwndBytes)]_vars

\* One event carried a loss that started a recovery epoch and an ack of a
\* positive number of bytes, of packet 0, below the new endOfRecovery: the
\* window is at the halved value, above its minimum, with room for the
\* acked bytes below its maximum.
C21_Witness ==
    /\ last.op = "onPacketAckOrLoss"
    /\ ~aborted
    /\ last.newEpoch
    /\ last.inRecovery
    /\ last.args.ack.val.ackedBytes > 0
    /\ last.args.ack.val.largestAckedPacket.val = 0
    /\ endOfRecovery = conn.largestSent
    /\ cwndBytes = ssthresh
    /\ MinCwndBytes < cwndBytes
    /\ cwndBytes + last.args.ack.val.ackedBytes <= MaxCwndBytes

\* C22: onPacketAckOrLoss given no loss event and either no ack event or an
\* ack event without a largest acked packet returns and leaves bytesInFlight,
\* cwndBytes, ssthresh and endOfRecovery as they were, whatever ackedBytes
\* the ack event carries.
C22_EmptyEventIsNoOp ==
    [][(/\ last'.op = "onPacketAckOrLoss"
        /\ ~last'.args.loss.has
        /\ (last'.args.ack.has => ~last'.args.ack.val.largestAckedPacket.has))
       => (/\ bytesInFlight' = bytesInFlight
           /\ cwndBytes' = cwndBytes
           /\ ssthresh' = ssthresh
           /\ endOfRecovery' = endOfRecovery
           /\ ~aborted')]_vars

\* An ack event without a largest acked packet, carrying acked bytes, came
\* alone while bytes were in flight and the window had room to grow.
C22_Witness ==
    /\ last.op = "onPacketAckOrLoss"
    /\ ~last.args.loss.has
    /\ last.args.ack.has
    /\ ~last.args.ack.val.largestAckedPacket.has
    /\ last.args.ack.val.ackedBytes > 0
    /\ bytesInFlight >= last.args.ack.val.ackedBytes
    /\ cwndBytes < MaxCwndBytes
    /\ cwndBytes < ssthresh

\* C23: while the largest sent packet number never decreases and every
\* reported largest lost packet number is at most the largest sent one,
\* endOfRecovery never exceeds the largest sent packet number, every change
\* of endOfRecovery strictly increases it, and it changes only in
\* onPacketLoss, called on its own or by onPacketAckOrLoss for a loss event.
C23_EndOfRecoveryAdvances ==
    /\ [](endOfRecovery <= conn.largestSent)
    /\ [][ /\ conn'.largestSent >= conn.largestSent
           /\ (last'.args.loss.has =>
                 last'.args.loss.val.largestLostPacketNum.val
                     <= conn.largestSent)
           /\ (endOfRecovery' # endOfRecovery =>
                 /\ endOfRecovery' > endOfRecovery
                 /\ endOfRecovery' = conn.largestSent
                 /\ last'.op \in {"onPacketLoss", "onPacketAckOrLoss"}
                 /\ last'.args.loss.has
                 /\ endOfRecovery
                        < last'.args.loss.val.largestLostPacketNum.val)
         ]_vars

\* A loss of a packet that is not the last one sent started a recovery
\* epoch: endOfRecovery moved up to the largest sent packet number, beyond
\* the packet reported lost.
C23_Witness ==
    /\ last.op = "onPacketLoss"
    /\ last.newEpoch
    /\ ~aborted
    /\ endOfRecovery = conn.largestSent
    /\ endOfRecovery > 1
    /\ last.args.loss.val.largestLostPacketNum.val < endOfRecovery
    /\ ssthresh = cwndBytes

---------------------------------------------------------------------------
\* The client handshake driven through its interface: the transport calls
\* doHandshake, onRecvOneRttProtectedData and the getters; the record layer
\* (fizz), inside processSocketData or on its own, consumes the read buffer
\* of its level and calls back computeZeroRttCipher, computeOneRttCipher,
\* computeCiphers, raiseError and waitForData.

HandshakeState ==
    [phase |-> phase, error |-> error, zeroRttRejected |-> zeroRttRejected,
     earlyDataAttempted |-> earlyDataAttempted]

cipherVars == <<slots, nextCipher, owned>>

\* What the handshake operations other than writeDataToStream leave alone.
restVars == <<ccVars, timeVars, cryptoStreams, fed>>

\* The handshake as constructed, beside a congestion controller that is
\* left as constructed.
InitHS ==
    /\ NewRenoInit(CHOOSE c \in Configs : c.initCwndInMss = 10)
    /\ ClientHandshakeInit
    /\ NoTimeCall
    /\ aborted = FALSE

DoHandshake ==
    \E data \in HandshakeData, encryptionLevel \in EncryptionLevels :
        /\ ~aborted
        /\ pc = "idle"
        /\ Len(readBufs[ReadBufOf(encryptionLevel)]) + Len(data) <= MaxBufLen
        /\ IF data = <<>>
           THEN /\ hlast' = [op |-> "doHandshake", threw |-> FALSE]
                /\ UNCHANGED <<phase, readBufs, waitForData_, pc>>
           ELSE /\ phase' = doHandshakePhase(phase)
                /\ readBufs' = doHandshakeAppend(readBufs, data, encryptionLevel)
                /\ waitForData_' = FALSE
                /\ pc' = "processSocketData"
                /\ hlast' = [op |-> "doHandshake:loop", threw |-> FALSE,
                             level |-> encryptionLevel]
        /\ UNCHANGED <<error, zeroRttRejected, earlyDataAttempted, readLevel>>
        /\ UNCHANGED <<cipherVars, restVars, aborted>>

\* processSocketData(buffer of the level being read): the record layer takes
\* bytes from the front of the buffer, and may move on to the next level.
RecordLayerReads ==
    \E n \in 1..MaxBufLen, next \in {"Initial", "Handshake", "AppData"} :
        /\ ~aborted
        /\ pc = "processSocketData"
        /\ n <= Len(readBufs[ReadBufOf(readLevel)])
        /\ \/ next = readLevel
           \/ readLevel = "Initial" /\ next = "Handshake"
           \/ readLevel = "Handshake" /\ next = "AppData"
        /\ readBufs' = [readBufs EXCEPT ![ReadBufOf(readLevel)] =
                           SubSeq(@, n + 1, Len(@))]
        /\ readLevel' = next
        /\ hlast' = [op |-> "processSocketData", threw |-> FALSE]
        /\ UNCHANGED <<phase, error, zeroRttRejected, earlyDataAttempted,
                       waitForData_, pc>>
        /\ UNCHANGED <<cipherVars, restVars, aborted>>

\* The loop of doHandshake testing waitForData_ before error_
ProcessSocketDataReturnsWaitFirst ==
    /\ ~aborted
    /\ pc = "processSocketData"
    /\ IF waitForData_
       THEN /\ pc' = "idle"
            /\ hlast' = [op |-> "doHandshake", threw |-> FALSE]
       ELSE IF error # "none"
            THEN /\ pc' = "idle"
                 /\ hlast' = [op |-> "doHandshake", threw |-> TRUE]
            ELSE UNCHANGED <<pc, hlast>>
    /\ UNCHANGED <<phase, error, zeroRttRejected, earlyDataAttempted,
                   waitForData_, readBufs, readLevel>>
    /\ UNCHANGED <<cipherVars, restVars, aborted>>

\* processSocketData returns into the loop of doHandshake:
\* if (error_) throw; then while (!waitForData_).
ProcessSocketDataReturns ==
    /\ ~aborted
    /\ pc = "processSocketData"
    /\ IF error # "none"
       THEN /\ pc' = "idle"
            /\ hlast' = [op |-> "doHandshake", threw |-> TRUE]
       ELSE IF waitForData_
            THEN /\ pc' = "idle"
                 /\ hlast' = [op |-> "doHandshake", threw |-> FALSE]
            ELSE UNCHANGED <<pc, hlast>>
    /\ UNCHANGED <<phase, error, zeroRttRejected, earlyDataAttempted,
                   waitForData_, readBufs, readLevel>>
    /\ UNCHANGED <<cipherVars, restVars, aborted>>

\* ClientHandshake::waitForData()
WaitForData ==
    /\ ~aborted
    /\ waitForData_' = TRUE
    /\ hlast' = [op |-> "waitForData", threw |-> FALSE]
    /\ UNCHANGED <<phase, error, zeroRttRejected, earlyDataAttempted,
                   readBufs, readLevel, pc>>
    /\ UNCHANGED <<cipherVars, restVars, aborted>>

\* ClientHandshake::raiseError(error)
RaiseError ==
    \E e \in RaisedErrors :
        /\ ~aborted
        /\ error' = raiseError(e)
        /\ hlast' = [op |-> "raiseError", threw |-> FALSE]
        /\ UNCHANGED <<phase, zeroRttRejected, earlyDataAttempted,
                       waitForData_, readBufs, readLevel, pc>>
        /\ UNCHANGED <<cipherVars, restVars, aborted>>

\* ClientHandshake::computeZeroRttCipher(): CHECK(earlyDataParams) ends the
\* process when state_ holds no early data parameters.
ComputeZeroRttCipher ==
    \E hasEarlyDataParams \in BOOLEAN :
        /\ ~aborted
        /\ aborted' = ~hasEarlyDataParams
        /\ earlyDataAttempted' = (hasEarlyDataParams \/ earlyDataAttempted)
        /\ hlast' = [op |-> "computeZeroRttCipher", threw |-> FALSE]
        /\ UNCHANGED <<phase, error, zeroRttRejected, waitForData_, readBufs,
                       readLevel, pc>>
        /\ UNCHANGED <<cipherVars, restVars>>

\* ClientHandshake::computeOneRttCipher(earlyDataAccepted)
ComputeOneRttCipher ==
    \E earlyDataAccepted \in BOOLEAN, earlyParametersMatch \in BOOLEAN :
        LET h == computeOneRttCipher(HandshakeState, earlyDataAccepted,
                                     earlyParametersMatch)
        IN /\ ~aborted
           /\ phase' = h.phase
           /\ error' = h.error
           /\ zeroRttRejected' = h.zeroRttRejected
           /\ earlyDataAttempted' = h.earlyDataAttempted
           /\ hlast' = [op |-> "computeOneRttCipher", threw |-> FALSE,
                        earlyDataAccepted |-> earlyDataAccepted,
                        earlyParametersMatch |-> earlyParametersMatch]
           /\ UNCHANGED <<waitForData_, readBufs, readLevel, pc>>
           /\ UNCHANGED <<cipherVars, restVars, aborted>>

\* ClientHandshake::onRecvOneRttProtectedData()
OnRecvOneRttProtectedData ==
    /\ ~aborted
    /\ pc = "idle"
    /\ phase' = onRecvOneRttProtectedData(phase)
    /\ hlast' = [op |-> "onRecvOneRttProtectedData", threw |-> FALSE]
    /\ UNCHANGED <<error, zeroRttRejected, earlyDataAttempted, waitForData_,
                   readBufs, readLevel, pc>>
    /\ UNCHANGED <<cipherVars, restVars, aborted>>

\* ClientHandshake::getZeroRttRejected()
GetZeroRttRejected ==
    /\ ~aborted
    /\ pc = "idle"
    /\ zeroRttRejected' = getZeroRttRejected(zeroRttRejected).zeroRttRejected
    /\ hlast' = [op |-> "getZeroRttRejected", threw |-> FALSE,
                 ret |-> getZeroRttRejected(zeroRttRejected).ret]
    /\ UNCHANGED <<phase, error, earlyDataAttempted, waitForData_, readBufs,
                   readLevel, pc>>
    /\ UNCHANGED <<cipherVars, restVars, aborted>>

\* ClientHandshake::computeCiphers(kind, secret): buildAead and
\* makePacketNumberCipher build two new ciphers.
ComputeCiphers ==
    \E kind \in CipherKinds :
        /\ ~aborted
        /\ nextCipher < 2 * MaxInstalls
        /\ slots' = computeCiphers(slots, kind, nextCipher + 1, nextCipher + 2)
        /\ nextCipher' = nextCipher + 2
        /\ hlast' = [op |-> "computeCiphers", threw |-> FALSE, kind |-> kind]
        /\ UNCHANGED <<phase, error, zeroRttRejected, earlyDataAttempted,
                       waitForData_, readBufs, readLevel, pc, owned>>
        /\ UNCHANGED <<restVars, aborted>>

\* The ten getters, getOneRttWriteCipher() .. getZeroRttWriteHeaderCipher():
\* each one on its member.
TakeCipher ==
    \E slot \in CipherSlots :
        LET r == getCipher(error, slots[slot])
        IN /\ ~aborted
           /\ pc = "idle"
           /\ slots' = [slots EXCEPT ![slot] = r.held]
           /\ owned' = IF r.ret # 0 THEN owned \cup {r.ret} ELSE owned
           /\ hlast' = [op |-> "getCipher", threw |-> r.threw, slot |-> slot,
                        ret |-> r.ret]
           /\ UNCHANGED <<phase, error, zeroRttRejected, earlyDataAttempted,
                          waitForData_, readBufs, readLevel, pc, nextCipher>>
           /\ UNCHANGED <<restVars, aborted>>

\* ClientHandshake::writeDataToStream(encryptionLevel, data), called by the
\* record layer with the bytes it has to send.
WriteDataToStream ==
    \E encryptionLevel \in EncryptionLevels, data \in WriteData :
        /\ ~aborted
        /\ Len(cryptoStreams[getCryptoStream(encryptionLevel)]) + Len(data)
               <= MaxStreamLen
        /\ cryptoStreams' = writeDataToStream(cryptoStreams, encryptionLevel, data)
        /\ hlast' = [op |-> "writeDataToStream", threw |-> FALSE,
                     level |-> encryptionLevel, data |-> data]
        /\ UNCHANGED <<phase, error, zeroRttRejected, earlyDataAttempted,
                       waitForData_, readBufs, readLevel, pc>>
        /\ UNCHANGED <<cipherVars, ccVars, timeVars, fed, aborted>>

NextHS ==
    \/ DoHandshake
    \/ RecordLayerReads
    \/ ProcessSocketDataReturns
    \/ WaitForData
    \/ RaiseError
    \/ ComputeZeroRttCipher
    \/ ComputeOneRttCipher
    \/ OnRecvOneRttProtectedData
    \/ GetZeroRttRejected

\* The phases, the 0-RTT verdict and the loop of doHandshake.
SpecHS == InitHS /\ [][NextHS]_vars

NextCiphers ==
    \/ ComputeCiphers
    \/ TakeCipher
    \/ RaiseError

\* The cipher members: the operations that write or read them, and the error
\* the getters test.
SpecCiphers == InitHS /\ [][NextCiphers]_vars

\* The level of the server's flight that bytes tagged encryptionLevel
\* belong to.
FlightOf(encryptionLevel) ==
    IF encryptionLevel = "EarlyData" THEN "AppData" ELSE encryptionLevel

\* ClientHandshake::doHandshake(data, encryptionLevel) up to its loop, given
\* the next n bytes of the server's flight at a level.
FeedChunk ==
    \E encryptionLevel \in EncryptionLevels :
        LET level == FlightOf(encryptionLevel)
            flight == ServerFlight[level]
        IN \E n \in 1..(Len(flight) - fed[level]) :
            /\ ~aborted
            /\ pc = "idle"
            /\ phase' = doHandshakePhase(phase)
            /\ readBufs' = doHandshakeAppend(
                   readBufs, SubSeq(flight, fed[level] + 1, fed[level] + n),
                   encryptionLevel)
            /\ fed' = [fed EXCEPT ![level] = @ + n]
            /\ waitForData_' = FALSE
            /\ pc' = "processSocketData"
            /\ hlast' = [op |-> "doHandshake:loop", threw |-> FALSE,
                         level |-> encryptionLevel]
            /\ UNCHANGED <<error, zeroRttRejected, earlyDataAttempted, readLevel>>
            /\ UNCHANGED <<cipherVars, ccVars, timeVars, cryptoStreams, aborted>>

\* processSocketData(buffer of the level being read) with the record layer
\* of a full handshake without early data: it waits for the whole message of
\* its level, fails on bytes that are not that message, and otherwise
\* consumes it, derives the keys of the next level and moves on to it.
ServerFlightStep ==
    LET buf == readBufs[ReadBufOf(readLevel)]
        msg == ServerFlight[readLevel]
        n == nextCipher
    IN /\ ~aborted
       /\ pc = "processSocketData"
       /\ error = "none"
       /\ ~waitForData_
       /\ hlast' = [op |-> "processSocketData", threw |-> FALSE]
       /\ IF Len(buf) < Len(msg)
          THEN /\ waitForData_' = TRUE
               /\ UNCHANGED <<phase, error, zeroRttRejected, readBufs, slots,
                              nextCipher, readLevel>>
          ELSE IF SubSeq(buf, 1, Len(msg)) # msg
          THEN /\ error' = raiseError("CRYPTO_ERROR")
               /\ UNCHANGED <<phase, zeroRttRejected, readBufs, slots,
                              nextCipher, readLevel, waitForData_>>
          ELSE /\ readBufs' = [readBufs EXCEPT ![ReadBufOf(readLevel)] =
                                  SubSeq(buf, Len(msg) + 1, Len(buf))]
               /\ UNCHANGED waitForData_
               /\ CASE readLevel = "Initial" ->
                        /\ slots' = computeCiphers(
                               computeCiphers(slots, "HandshakeWrite", n + 1, n + 2),
                               "HandshakeRead", n + 3, n + 4)
                        /\ nextCipher' = n + 4
                        /\ readLevel' = "Handshake"
                        /\ UNCHANGED <<phase, error, zeroRttRejected>>
                    [] readLevel = "Handshake" ->
                        LET h == computeOneRttCipher(HandshakeState, TRUE, TRUE)
                        IN /\ slots' = computeCiphers(
                                  computeCiphers(slots, "OneRttWrite", n + 1, n + 2),
                                  "OneRttRead", n + 3, n + 4)
                           /\ nextCipher' = n + 4
                           /\ readLevel' = "AppData"
                           /\ phase' = h.phase
                           /\ error' = h.error
                           /\ zeroRttRejected' = h.zeroRttRejected
                    [] OTHER ->
                        UNCHANGED <<phase, error, zeroRttRejected, slots,
                                    nextCipher, readLevel>>
       /\ UNCHANGED <<earlyDataAttempted, owned, pc>>
       /\ UNCHANGED <<restVars, aborted>>

NextChunk ==
    \/ FeedChunk
    \/ ServerFlightStep
    \/ ProcessSocketDataReturns

\* The server's flight delivered to doHandshake in chunks of any size, in
\* any order of the levels.
SpecChunk == InitHS /\ [][NextChunk]_vars

NextWrite == WriteDataToStream

\* What the record layer signals to end the loop of doHandshake.
RecordLayerSignals ==
    /\ pc = "processSocketData"
    /\ (WaitForData \/ RaiseError)

NextLoop ==
    \/ DoHandshake
    \/ RecordLayerReads
    \/ ProcessSocketDataReturns
    \/ WaitForData
    \/ RaiseError

\* doHandshake and its loop, with a record layer that in the end signals
\* waitForData or raises an error, and a loop that goes on to its test when
\* processSocketData has returned.
SpecLoop ==
    /\ InitHS
    /\ [][NextLoop]_vars
    /\ WF_vars(RecordLayerSignals)
    /\ WF_vars(ProcessSocketDataReturns)

NextErr ==
    \/ DoHandshake
    \/ ProcessSocketDataReturns
    \/ WaitForData
    \/ RaiseError
    \/ ComputeZeroRttCipher
    \/ ComputeOneRttCipher
    \/ TakeCipher

\* The stored error: the operations that write it, and the getters and the
\* loop of doHandshake that test it.
SpecErr == InitHS /\ [][NextErr]_vars

---------------------------------------------------------------------------
\* timeMin and timeMax called on two or more durations.

InitTime ==
    /\ NewRenoInit(CHOOSE c \in Configs : c.initCwndInMss = 10)
    /\ ClientHandshakeInit
    /\ \E n \in 2..MaxArgs : durations \in [1..n -> Durations]
    /\ timeOut = [op |-> "none", ret |-> 0]
    /\ aborted = FALSE

CallTimeMin ==
    /\ timeOut' = [op |-> "timeMin", ret |-> timeMin(durations)]
    /\ UNCHANGED <<ccVars, hsVars, durations, aborted>>

CallTimeMax ==
    /\ timeOut' = [op |-> "timeMax", ret |-> timeMax(durations)]
    /\ UNCHANGED <<ccVars, hsVars, durations, aborted>>

NextTime ==
    \/ CallTimeMin
    \/ CallTimeMax

SpecTime == InitTime /\ [][NextTime]_vars

\* The write fanout: the record layer's writes alone.
SpecWrite == InitHS /\ [][NextWrite]_vars

---------------------------------------------------------------------------
\* Properties of the client handshake.

\* C2: no call of doHandshake, computeOneRttCipher or
\* onRecvOneRttProtectedData moves the phase to an earlier one in the order
\* Initial < Handshake < OneRttKeysDerived < Established.
C2_PhaseMonotone ==
    [][PhaseRank(phase') >= PhaseRank(phase)]_vars

\* C7: computeOneRttCipher called after computeZeroRttCipher, with early data
\* not accepted and the early parameters still matching, sets
\* zeroRttRejected to true, raises no error and leaves the phase at
\* OneRttKeysDerived.
C7_RejectedParamsMatch ==
    [][(/\ hlast'.op = "computeOneRttCipher"
        /\ earlyDataAttempted
        /\ ~hlast'.earlyDataAccepted
        /\ hlast'.earlyParametersMatch)
       => (/\ zeroRttRejected' = Some(TRUE)
           /\ error' = error
           /\ phase' = "OneRttKeysDerived")]_vars

\* The handshake completed with the early data rejected, the parameters
\* matching and no error.
C7_Witness ==
    /\ hlast.op = "computeOneRttCipher"
    /\ earlyDataAttempted
    /\ ~hlast.earlyDataAccepted
    /\ hlast.earlyParametersMatch
    /\ zeroRttRejected = Some(TRUE)
    /\ error = "none"
    /\ phase = "OneRttKeysDerived"

\* C8: computeOneRttCipher called after computeZeroRttCipher, with early data
\* not accepted and early parameters that no longer match, stores the error
\* EARLY_DATA_REJECTED, does not set zeroRttRejected and does not change the
\* phase.
C8_RejectedParamsChanged ==
    [][(/\ hlast'.op = "computeOneRttCipher"
        /\ earlyDataAttempted
        /\ ~hlast'.earlyDataAccepted
        /\ ~hlast'.earlyParametersMatch)
       => (/\ error' = "EARLY_DATA_REJECTED"
           /\ zeroRttRejected' = zeroRttRejected
           /\ phase' = phase)]_vars

\* The handshake failed on changed early parameters while in phase Handshake.
C8_Witness ==
    /\ hlast.op = "computeOneRttCipher"
    /\ earlyDataAttempted
    /\ ~hlast.earlyDataAccepted
    /\ ~hlast.earlyParametersMatch
    /\ error = "EARLY_DATA_REJECTED"
    /\ zeroRttRejected = None
    /\ phase = "Handshake"

\* No cipher is held twice: not by two members, and not by a member and the
\* caller a getter handed it to.
NoCipherHeldTwice ==
    /\ \A s1, s2 \in CipherSlots :
           (s1 # s2 /\ slots[s1] # 0) => slots[s1] # slots[s2]
    /\ \A s \in CipherSlots : slots[s] \notin owned

\* C9: a getter that returns hands out what its member held and leaves the
\* member empty, so that later calls return nothing until computeCiphers
\* stores that kind again; computeCiphers replaces what the two members of
\* its kind held by two new ciphers; and no cipher is ever held twice.
C9_CipherSlots ==
    [][/\ NoCipherHeldTwice'
       /\ (hlast'.op = "getCipher" /\ ~hlast'.threw)
          => (/\ hlast'.ret = slots[hlast'.slot]
              /\ slots' = [slots EXCEPT ![hlast'.slot] = 0])
       /\ (hlast'.op = "computeCiphers")
          => LET a == AeadSlot(hlast'.kind)
                 h == HeaderSlot(hlast'.kind)
                 old == {slots[s] : s \in CipherSlots} \cup owned \cup {0}
             IN /\ slots'[a] \notin old
                /\ slots'[h] \notin old
                /\ slots'[a] # slots'[h]
                /\ \A s \in CipherSlots \ {a, h} : slots'[s] = slots[s]
                /\ owned' = owned]_vars

\* A getter returned the Aead of the second computeCiphers from a member
\* whose first Aead was replaced while still held.
C9_Witness ==
    /\ hlast.op = "getCipher"
    /\ ~hlast.threw
    /\ hlast.ret = 3
    /\ hlast.ret \in owned
    /\ slots[hlast.slot] = 0
    /\ 1 \notin owned
    /\ \A s \in CipherSlots : slots[s] # 1

\* C11: writeDataToStream at level AppData drops the bytes and changes no
\* crypto stream; at level Initial or Handshake it appends the bytes, in
\* order, to the crypto stream of that level and changes no other.
C11_WriteFanout ==
    [][(hlast'.op = "writeDataToStream")
       => (/\ hlast'.level = "AppData" => cryptoStreams' = cryptoStreams
           /\ hlast'.level = "Initial" =>
                  cryptoStreams' = [cryptoStreams EXCEPT
                                       !.initialStream = @ \o hlast'.data]
           /\ hlast'.level = "Handshake" =>
                  cryptoStreams' = [cryptoStreams EXCEPT
                                       !.handshakeStream = @ \o hlast'.data])]_vars

\* A second write at level Handshake followed the first, after a write at
\* level Initial, and nothing is on the 1-RTT stream.
C11_Witness ==
    /\ hlast.op = "writeDataToStream"
    /\ hlast.level = "Handshake"
    /\ hlast.data = <<1>>
    /\ cryptoStreams.handshakeStream = <<2, 1>>
    /\ cryptoStreams.initialStream # <<>>
    /\ cryptoStreams.oneRttStream = <<>>

\* The whole flight of the server was handed to doHandshake.
FlightDelivered ==
    \A level \in DOMAIN ServerFlight : fed[level] = Len(ServerFlight[level])

\* C12: once the whole flight was handed to doHandshake, in whatever chunks
\* and order of the levels, and doHandshake has returned, the phase is
\* OneRttKeysDerived, the cipher members hold the four pairs of handshake and
\* 1-RTT ciphers in the order they were derived, no error is stored and no
\* byte is left in a read buffer.
C12_ChunkingIndependent ==
    (FlightDelivered /\ pc = "idle")
    => (/\ phase = "OneRttKeysDerived"
        /\ error = "none"
        /\ slots = [s \in CipherSlots |->
                      CASE s = "handshakeWriteCipher_" -> 1
                        [] s = "handshakeWriteHeaderCipher_" -> 2
                        [] s = "handshakeReadCipher_" -> 3
                        [] s = "handshakeReadHeaderCipher_" -> 4
                        [] s = "oneRttWriteCipher_" -> 5
                        [] s = "oneRttWriteHeaderCipher_" -> 6
                        [] s = "oneRttReadCipher_" -> 7
                        [] s = "oneRttReadHeaderCipher_" -> 8
                        [] OTHER -> 0]
        /\ \A b \in DOMAIN readBufs : readBufs[b] = <<>>)

\* The flight was delivered and doHandshake returned with the record layer
\* at level AppData and the 1-RTT keys derived.
C12_Witness ==
    /\ FlightDelivered
    /\ pc = "idle"
    /\ hlast.op = "doHandshake"
    /\ ~hlast.threw
    /\ phase = "OneRttKeysDerived"
    /\ readLevel = "AppData"
    /\ slots["oneRttReadCipher_"] # 0

\* C19: a stored error stays stored; while one is stored, a getter throws,
\* returns no cipher and leaves its member alone, and a doHandshake that
\* entered its loop ends by throwing.
C19_ErrorIsSticky ==
    [][/\ error # "none" => error' # "none"
       /\ (hlast'.op = "getCipher" /\ error # "none")
          => (/\ hlast'.threw
              /\ hlast'.ret = 0
              /\ slots' = slots
              /\ owned' = owned)
       /\ (pc = "processSocketData" /\ pc' = "idle" /\ error # "none")
          => (hlast'.op = "doHandshake" /\ hlast'.threw)]_vars

\* A getter threw after the early parameters did not match, in a handshake
\* that had reached phase OneRttKeysDerived before.
C19_Witness ==
    /\ hlast.op = "getCipher"
    /\ hlast.threw
    /\ error = "EARLY_DATA_REJECTED"
    /\ phase = "OneRttKeysDerived"
    /\ pc = "idle"

\* C20: doHandshake appends its bytes to the read buffer of their level,
\* EarlyData and AppData sharing one, and clears waitForData_;
\* processSocketData takes bytes of the buffer of the level being read only;
\* the loop is left only with an error stored or waitForData_ set, by
\* throwing if an error is stored, also when waitForData_ is set, and by
\* returning otherwise; and a doHandshake inside its loop ends.
C20_LoopEnds ==
    /\ [][ /\ (hlast'.op = "doHandshake:loop")
              => (/\ \E data \in HandshakeData \ {<<>>} :
                        readBufs' = [readBufs EXCEPT
                            ![IF hlast'.level \in {"EarlyData", "AppData"}
                              THEN "appDataReadBuf_"
                              ELSE IF hlast'.level = "Handshake"
                              THEN "handshakeReadBuf_"
                              ELSE "initialReadBuf_"] = @ \o data]
                  /\ ~waitForData_'
                  /\ pc' = "processSocketData")
           /\ (hlast'.op = "processSocketData")
              => \A b \in DOMAIN readBufs :
                     b # ReadBufOf(readLevel) => readBufs'[b] = readBufs[b]
           /\ (pc = "processSocketData" /\ pc' = "idle")
              => (/\ error # "none" \/ waitForData_
                  /\ hlast'.threw <=> error # "none"
                  /\ UNCHANGED <<readBufs, error, waitForData_>>)]_vars
    /\ (pc = "processSocketData" ~> pc = "idle")

\* doHandshake threw with waitForData_ set as well.
C20_Witness ==
    /\ hlast.op = "doHandshake"
    /\ hlast.threw
    /\ pc = "idle"
    /\ waitForData_
    /\ error # "none"

\* C14: every change of the phase goes to the next phase: to Handshake from
\* Initial in doHandshake, to OneRttKeysDerived from Handshake in
\* computeOneRttCipher, to Established from OneRttKeysDerived in
\* onRecvOneRttProtectedData.
C14_PhaseStepsByOne ==
    [][(phase' # phase)
       => \/ /\ phase = "Initial" /\ phase' = "Handshake"
             /\ hlast'.op = "doHandshake:loop"
          \/ /\ phase = "Handshake" /\ phase' = "OneRttKeysDerived"
             /\ hlast'.op = "computeOneRttCipher"
          \/ /\ phase = "OneRttKeysDerived" /\ phase' = "Established"
             /\ hlast'.op = "onRecvOneRttProtectedData"]_vars

---------------------------------------------------------------------------
\* Properties of timeMin and timeMax.

\* C13: timeMin of two or more durations returns one of them that is no
\* larger than any, and timeMax one that is no smaller than any, wherever
\* that argument stands.
C13_TimeMinMax ==
    /\ timeOut.op = "timeMin" =>
          /\ \E i \in DOMAIN durations : timeOut.ret = durations[i]
          /\ \A i \in DOMAIN durations : timeOut.ret <= durations[i]
    /\ timeOut.op = "timeMax" =>
          /\ \E i \in DOMAIN durations : timeOut.ret = durations[i]
          /\ \A i \in DOMAIN durations : timeOut.ret >= durations[i]

\* TestMinFive: timeMin(20, 30, 40, 10) returned 10, its last argument.
C13_Witness ==
    /\ timeOut.op = "timeMin"
    /\ durations = <<20, 30, 40, 10>>
    /\ timeOut.ret = 10

=============================================================================
